---- MODULE Spec2Model ----
(***************************************************************************)
(* GreedyPlanner.solve of solver2 (src/solver2/src/solvers/greedy_engine.py) *)
(* as a state machine: FASE 1 locks the pre-planned assignments one by one, *)
(* FASE 2 walks the requirements in input order and commits the least      *)
(* loaded eligible employees, then the metrics are computed.                *)
(*                                                                         *)
(* Strings are the program's strings; assignment ids and suggestion texts   *)
(* are built by concatenation as the f-strings build them.  The fields      *)
(* voornaam, achternaam, available_dates, max_shifts_per_week and           *)
(* current_shifts of EmployeeCapability and the reason fields of the input  *)
(* records are never read by solve and are left out.  coverage_rate is kept *)
(* as the exact fraction <<numerator, denominator>>.                        *)
(***************************************************************************)
EXTENDS Integers, Sequences, FiniteSets, TLC

\* ---------------------------------------------------------------- bounds
\* A call of solve gets at most MaxRecords input records, over its four lists.
MaxRecords == 5
\* The largest required_count of a requirement.
MaxRequired == 2

\* ------------------------------------------------------- input universes
Day == "2024-01-01"

\* EmployeeCapability records the employee list is drawn from.
EmployeePool ==
    { [employee_id |-> "e1", team |-> "A", capable_services |-> ("S" :> TRUE)],
      [employee_id |-> "e2", team |-> "B",
       capable_services |-> ("S" :> TRUE) @@ ("T" :> TRUE)],
      [employee_id |-> "e3", team |-> "A",
       capable_services |-> ("S" :> TRUE) @@ ("T" :> FALSE)] }

\* FixedAssignment records: a plain lock, a lock in another day-part, a lock
\* for a service the worker lacks.  Each of them names a worker nobody listed
\* when the employee list leaves that worker out.
FixedPool ==
    { [employee_id |-> "e1", date |-> Day, dagdeel |-> "ochtend", service_id |-> "S"],
      [employee_id |-> "e2", date |-> Day, dagdeel |-> "middag", service_id |-> "T"],
      [employee_id |-> "e1", date |-> Day, dagdeel |-> "ochtend", service_id |-> "T"] }

BlockedPool ==
    { [employee_id |-> e, date |-> Day, dagdeel |-> "ochtend"] : e \in {"e1", "e2"} }

\* Requirements, all for the same date and day-part: service "S" without a team
\* filter for every count up to MaxRequired, "S" for team "A" with MaxRequired
\* seats, and one seat of service "T".
RequirementPool ==
    { [date |-> Day, dagdeel |-> "ochtend", service_id |-> "S",
       required_count |-> n, team |-> ""] : n \in 0..MaxRequired }
    \cup
    { [date |-> Day, dagdeel |-> "ochtend", service_id |-> "S",
       required_count |-> MaxRequired, team |-> "A"],
      [date |-> Day, dagdeel |-> "ochtend", service_id |-> "T",
       required_count |-> 1, team |-> ""] }

SeqsUpTo(S, n) == UNION { [1..k -> S] : k \in 0..n }

\* ------------------------------------------------------------------ state
VARIABLES
    requirements, employees, fixed_assignments, blocked_slots,  \* solve's arguments
    roster, bottlenecks, assignment_count,                      \* solve's data structures
    pc,            \* where solve is: "fase1", "fase2", "assign", "done", "raised"
    fi,            \* index of the next FixedAssignment of the FASE 1 loop
    ri,            \* index of the next requirement of the FASE 2 loop
    current_count, shortage, eligible, assigned,                \* locals of one FASE 2 iteration
    ei,            \* index of the next employee of the inner loop over eligible
    result         \* total_slots, assigned_slots, coverage_rate of the RosteringResult

inputs == <<requirements, employees, fixed_assignments, blocked_slots>>
locals == <<current_count, shortage, eligible, assigned, ei>>
vars == <<requirements, employees, fixed_assignments, blocked_slots, roster, bottlenecks,
          assignment_count, pc, fi, ri, current_count, shortage, eligible, assigned, ei,
          result>>

NoResult == [total_slots |-> 0, assigned_slots |-> 0, coverage_rate |-> <<0, 1>>]

\* ------------------------------------------------------------ pure helpers
\* capable_services.get(service_id, False)
CapableOf(emp, service_id) ==
    IF service_id \in DOMAIN emp.capable_services
    THEN emp.capable_services[service_id] ELSE FALSE

\* _build_blocked_set
BuildBlockedSet(slots) ==
    { <<slots[i].employee_id, slots[i].date, slots[i].dagdeel>> : i \in 1..Len(slots) }

blocked_set == BuildBlockedSet(blocked_slots)

\* next((e for e in employees if e.employee_id == employee_id), None): the index
\* of the first record with that id, 0 for None.
FirstEmployee(employee_id, emps) ==
    LET hits == { i \in 1..Len(emps) : emps[i].employee_id = employee_id }
    IN  IF hits = {} THEN 0 ELSE CHOOSE i \in hits : \A j \in hits : i <= j

IsValidAssignmentNoLookup(employee_id, date, dagdeel, service_id, emps, blocked) ==
    /\ <<employee_id, date, dagdeel>> \notin blocked
    /\ LET k == FirstEmployee(employee_id, emps)
       IN  IF k = 0 THEN TRUE ELSE CapableOf(emps[k], service_id)

IsValidAssignmentNoBlock(employee_id, date, dagdeel, service_id, emps, blocked) ==
    LET k == FirstEmployee(employee_id, emps)
    IN  IF k = 0 THEN FALSE ELSE CapableOf(emps[k], service_id)

\* _is_valid_assignment
IsValidAssignment(employee_id, date, dagdeel, service_id, emps, blocked) ==
    /\ <<employee_id, date, dagdeel>> \notin blocked
    /\ LET k == FirstEmployee(employee_id, emps)
       IN  IF k = 0 THEN FALSE ELSE CapableOf(emps[k], service_id)

\* The Assignment FASE 1 builds for a valid FixedAssignment.
LockedAssignment(fixed) ==
    [assignment_id |-> fixed.employee_id \o "_" \o fixed.date \o "_" \o fixed.dagdeel,
     employee_id |-> fixed.employee_id, date |-> fixed.date, dagdeel |-> fixed.dagdeel,
     service_id |-> fixed.service_id, source |-> "pre-planned", is_locked |-> TRUE]

\* The Assignment FASE 2 builds for an eligible employee.
GreedyAssignment(emp, req) ==
    [assignment_id |-> emp.employee_id \o "_" \o req.date \o "_" \o req.dagdeel
                       \o "_" \o req.service_id,
     employee_id |-> emp.employee_id, date |-> req.date, dagdeel |-> req.dagdeel,
     service_id |-> req.service_id, source |-> "greedy", is_locked |-> FALSE]

CountSlotLockedOnly(ros, date, dagdeel, service_id) ==
    Cardinality({ i \in 1..Len(ros) :
        /\ ros[i].is_locked
        /\ ros[i].date = date /\ ros[i].dagdeel = dagdeel /\ ros[i].service_id = service_id })

\* len([a for a in roster if a.date == ... and a.dagdeel == ... and a.service_id == ...])
CountSlot(ros, date, dagdeel, service_id) ==
    Cardinality({ i \in 1..Len(ros) :
        ros[i].date = date /\ ros[i].dagdeel = dagdeel /\ ros[i].service_id = service_id })

\* any(a.employee_id == emp.employee_id and a.date == date and a.dagdeel == dagdeel ...)
AlreadyAssigned(ros, employee_id, date, dagdeel) ==
    \E i \in 1..Len(ros) :
        ros[i].employee_id = employee_id /\ ros[i].date = date /\ ros[i].dagdeel = dagdeel

FindEligibleEmployeesAnyTeam(date, dagdeel, service_id, emps, ros, blocked, team_filter) ==
    LET Keep(emp) ==
            /\ CapableOf(emp, service_id)
            /\ <<emp.employee_id, date, dagdeel>> \notin blocked
            /\ ~AlreadyAssigned(ros, emp.employee_id, date, dagdeel)
    IN  SelectSeq(emps, Keep)

\* _find_eligible_employees
FindEligibleEmployees(date, dagdeel, service_id, emps, ros, blocked, team_filter) ==
    LET Keep(emp) ==
            /\ ~(team_filter # "" /\ emp.team # team_filter)
            /\ CapableOf(emp, service_id)
            /\ <<emp.employee_id, date, dagdeel>> \notin blocked
            /\ ~AlreadyAssigned(ros, emp.employee_id, date, dagdeel)
    IN  SelectSeq(emps, Keep)

\* assignment_count.get(e.employee_id, 0)
Workload(emp, counts) ==
    IF emp.employee_id \in DOMAIN counts THEN counts[emp.employee_id] ELSE 0

\* One step of a stable sort: emp goes behind every entry with a key <= its own.
RECURSIVE InsertByWorkload(_, _, _)
InsertByWorkload(emp, sorted, counts) ==
    IF sorted = <<>> THEN <<emp>>
    ELSE IF Workload(emp, counts) < Workload(Head(sorted), counts)
         THEN <<emp>> \o sorted
         ELSE <<Head(sorted)>> \o InsertByWorkload(emp, Tail(sorted), counts)

RECURSIVE SortFrom(_, _, _)
SortFrom(done, rest, counts) ==
    IF rest = <<>> THEN done
    ELSE SortFrom(InsertByWorkload(Head(rest), done, counts), Tail(rest), counts)

SortByWorkloadUnsorted(elig, counts) == elig

\* eligible.sort(key=lambda e: assignment_count.get(e.employee_id, 0)): stable
SortByWorkload(elig, counts) == SortFrom(<<>>, elig, counts)

ShortageIgnoringCount(req, count) == req.required_count

\* shortage = req.required_count - current_count
ShortageOf(req, count) == req.required_count - count

\* Bottleneck.__post_init__: severity from shortage
SeverityOf(short) ==
    IF short >= 2 THEN "CRITICAL" ELSE IF short = 1 THEN "HIGH" ELSE "MEDIUM"

AnalyzeBottleneckReasonEligible(req, elig, blocked, emps) ==
    LET capable == SelectSeq(elig, LAMBDA e : CapableOf(e, req.service_id))
        available == SelectSeq(capable,
                        LAMBDA e : <<e.employee_id, req.date, req.dagdeel>> \notin blocked)
    IN  IF capable = <<>> THEN "No employees capable of this service"
        ELSE IF available = <<>> THEN "All capable employees are blocked/unavailable"
        ELSE "Insufficient eligible employees for this slot"

\* _analyze_bottleneck_reason
AnalyzeBottleneckReason(req, elig, blocked, emps) ==
    LET capable == SelectSeq(emps, LAMBDA e : CapableOf(e, req.service_id))
        available == SelectSeq(capable,
                        LAMBDA e : <<e.employee_id, req.date, req.dagdeel>> \notin blocked)
    IN  IF capable = <<>> THEN "No employees capable of this service"
        ELSE IF available = <<>> THEN "All capable employees are blocked/unavailable"
        ELSE "Insufficient eligible employees for this slot"

\* _suggest_solutions
SuggestSolutions(req, short) ==
    (IF short = 1 THEN <<"Train 1 more employee in this service">>
     ELSE IF short > 1
          THEN <<"Train " \o ToString(short) \o " more employees in this service">>
          ELSE <<>>)
    \o <<"Reduce requirement by " \o ToString(short), "Check for scheduling conflicts">>

PlacedCountAssignedOnly(count, done) == done

\* placed_count=current_count + assigned
PlacedCount(count, done) == count + done

\* The Bottleneck of a requirement left short, with reason and suggestions filled in.
NewBottleneck(req, placed, elig, blocked, emps) ==
    LET short == req.required_count - placed
    IN  [date |-> req.date, dagdeel |-> req.dagdeel, service_id |-> req.service_id,
         required_count |-> req.required_count, placed_count |-> placed,
         shortage |-> short, severity |-> SeverityOf(short),
         reason |-> AnalyzeBottleneckReason(req, elig, blocked, emps),
         suggestions |-> SuggestSolutions(req, short)]

NotFilledOrExact(done, short) == done <= short

\* if assigned < shortage
NotFilled(done, short) == done < short

\* total_slots, assigned_slots, coverage_rate
Metrics(reqs, bots) ==
    LET total == Len(reqs)
        zero == Cardinality({ i \in 1..Len(bots) : bots[i].shortage = 0 })
        asg == zero + (total - Len(bots))
    IN  [total_slots |-> total, assigned_slots |-> asg,
         coverage_rate |-> IF total > 0 THEN <<asg * 100, total>> ELSE <<0, 1>>]

\* ------------------------------------------------------------------- Init
Init ==
    /\ requirements \in SeqsUpTo(RequirementPool, MaxRecords)
    /\ employees \in SeqsUpTo(EmployeePool, MaxRecords - Len(requirements))
    /\ fixed_assignments \in
           SeqsUpTo(FixedPool, MaxRecords - Len(requirements) - Len(employees))
    /\ blocked_slots \in
           SeqsUpTo(BlockedPool, MaxRecords - Len(requirements) - Len(employees)
                                    - Len(fixed_assignments))
    /\ roster = <<>>
    /\ bottlenecks = <<>>
    /\ assignment_count = [id \in { employees[i].employee_id : i \in 1..Len(employees) } |-> 0]
    /\ pc = "fase1"
    /\ fi = 1
    /\ ri = 1
    /\ current_count = 0
    /\ shortage = 0
    /\ eligible = <<>>
    /\ assigned = 0
    /\ ei = 1
    /\ result = NoResult

\* ---------------------------------------------------------------- actions
\* One iteration of the FASE 1 loop (lines 174-188).  Incrementing the count of
\* an id that is no key of assignment_count is a KeyError: solve raises.
LockFixed ==
    /\ pc = "fase1"
    /\ fi <= Len(fixed_assignments)
    /\ LET fixed == fixed_assignments[fi]
       IN  IF IsValidAssignment(fixed.employee_id, fixed.date, fixed.dagdeel,
                                fixed.service_id, employees, blocked_set)
           THEN IF fixed.employee_id \in DOMAIN assignment_count
                THEN /\ roster' = Append(roster, LockedAssignment(fixed))
                     /\ assignment_count' =
                            [assignment_count EXCEPT ![fixed.employee_id] = @ + 1]
                     /\ fi' = fi + 1
                     /\ pc' = pc
                ELSE /\ roster' = Append(roster, LockedAssignment(fixed))
                     /\ pc' = "raised"
                     /\ UNCHANGED <<assignment_count, fi>>
           ELSE /\ fi' = fi + 1
                /\ UNCHANGED <<roster, assignment_count, pc>>
    /\ UNCHANGED <<inputs, bottlenecks, ri, locals, result>>

\* The FASE 1 loop is exhausted (line 190).
EndFase1 ==
    /\ pc = "fase1"
    /\ fi > Len(fixed_assignments)
    /\ pc' = "fase2"
    /\ UNCHANGED <<inputs, roster, bottlenecks, assignment_count, fi, ri, locals, result>>

\* Head of one FASE 2 iteration (lines 194-212): count, and when short, find
\* and sort the eligible employees.
BeginRequirement ==
    /\ pc = "fase2"
    /\ ri <= Len(requirements)
    /\ LET req == requirements[ri]
           count == CountSlot(roster, req.date, req.dagdeel, req.service_id)
       IN  IF count < req.required_count
           THEN /\ current_count' = count
                /\ shortage' = ShortageOf(req, count)
                /\ eligible' = SortByWorkload(
                       FindEligibleEmployees(req.date, req.dagdeel, req.service_id,
                                             employees, roster, blocked_set, req.team),
                       assignment_count)
                /\ assigned' = 0
                /\ ei' = 1
                /\ pc' = "assign"
                /\ ri' = ri
           ELSE /\ ri' = ri + 1
                /\ UNCHANGED <<pc, locals>>
    /\ UNCHANGED <<inputs, roster, bottlenecks, assignment_count, fi, result>>

\* One iteration of the inner loop that does not break (lines 213-227).
Commit ==
    /\ pc = "assign"
    /\ ei <= Len(eligible)
    /\ ~(assigned >= shortage)
    /\ LET emp == eligible[ei]
           req == requirements[ri]
       IN  IF emp.employee_id \in DOMAIN assignment_count
           THEN /\ roster' = Append(roster, GreedyAssignment(emp, req))
                /\ assignment_count' = [assignment_count EXCEPT ![emp.employee_id] = @ + 1]
                /\ assigned' = assigned + 1
                /\ ei' = ei + 1
                /\ pc' = pc
           ELSE /\ roster' = Append(roster, GreedyAssignment(emp, req))
                /\ pc' = "raised"
                /\ UNCHANGED <<assignment_count, assigned, ei>>
    /\ UNCHANGED <<inputs, bottlenecks, fi, ri, current_count, shortage, eligible, result>>

\* The inner loop ends (exhausted or break) and the bottleneck is created if
\* the requirement was not filled (lines 229-242).
EndRequirement ==
    /\ pc = "assign"
    /\ (ei > Len(eligible) \/ assigned >= shortage)
    /\ LET req == requirements[ri]
       IN  bottlenecks' =
               IF NotFilled(assigned, shortage)
               THEN Append(bottlenecks,
                           NewBottleneck(req, PlacedCount(current_count, assigned),
                                         eligible, blocked_set, employees))
               ELSE bottlenecks
    /\ ri' = ri + 1
    /\ pc' = "fase2"
    /\ UNCHANGED <<inputs, roster, assignment_count, fi, locals, result>>

\* The FASE 2 loop is exhausted: metrics and the result (lines 246-264).
Finish ==
    /\ pc = "fase2"
    /\ ri > Len(requirements)
    /\ result' = Metrics(requirements, bottlenecks)
    /\ pc' = "done"
    /\ UNCHANGED <<inputs, roster, bottlenecks, assignment_count, fi, ri, locals>>

Next ==
    \/ LockFixed
    \/ EndFase1
    \/ BeginRequirement
    \/ Commit
    \/ EndRequirement
    \/ Finish

Spec == Init /\ [][Next]_vars

\* ------------------------------------------------------------------ claims
SameSlot(a, b) ==
    a.employee_id = b.employee_id /\ a.date = b.date /\ a.dagdeel = b.dagdeel

\* C1: at every point of FASE 1 and FASE 2 and in the returned roster, no two
\* Assignments (locked and greedy together) share (employee_id, date, dagdeel).
C1_NoDoubleBooking ==
    \A i, j \in 1..Len(roster) : i # j => ~SameSlot(roster[i], roster[j])

LockedCount(ros, date, dagdeel, service_id) ==
    Cardinality({ i \in 1..Len(ros) :
        /\ ros[i].is_locked
        /\ ros[i].date = date /\ ros[i].dagdeel = dagdeel
        /\ ros[i].service_id = service_id })

SameTriple(a, b) ==
    a.date = b.date /\ a.dagdeel = b.dagdeel /\ a.service_id = b.service_id

\* The largest required_count among the requirements for r's triple.
LargestDemand(r) ==
    LET demands == { requirements[k].required_count :
                        k \in { n \in 1..Len(requirements) : SameTriple(requirements[n], r) } }
    IN  CHOOSE m \in demands : \A d \in demands : d <= m

\* C2 as stated: in the returned roster, for every requirement, the number of
\* Assignments for its (date, dagdeel, service_id) is at most its required_count.
C2_WithinRequiredCount ==
    pc = "done" =>
        \A k \in 1..Len(requirements) :
            LET r == requirements[k]
            IN  CountSlot(roster, r.date, r.dagdeel, r.service_id) <= r.required_count

\* C2 amended: for every requirement, the number of Assignments for its triple
\* is at most the larger of the number of locked Assignments for that triple
\* and the largest required_count among the requirements for that triple.
C2_WithinLargestDemand ==
    \A k \in 1..Len(requirements) :
        LET r == requirements[k]
            locked == LockedCount(roster, r.date, r.dagdeel, r.service_id)
            demand == LargestDemand(r)
        IN  CountSlot(roster, r.date, r.dagdeel, r.service_id)
                <= IF locked > demand THEN locked ELSE demand

\* A returned roster with greedy Assignments in which a requirement's triple
\* holds more Assignments than that requirement asks for.
C2_Witness ==
    /\ pc = "done"
    /\ \E i \in 1..Len(roster) : ~roster[i].is_locked
    /\ \E k \in 1..Len(requirements) :
           LET r == requirements[k]
           IN  /\ r.required_count >= 1
               /\ CountSlot(roster, r.date, r.dagdeel, r.service_id) > r.required_count

\* A FixedAssignment is valid: its worker is in the employee list and capable of
\* the service, and (worker, date, dagdeel) is not in the blocked index.
C3_Valid(f) ==
    /\ \E i \in 1..Len(employees) :
           /\ employees[i].employee_id = f.employee_id
           /\ f.service_id \in DOMAIN employees[i].capable_services
           /\ employees[i].capable_services[f.service_id]
    /\ ~\E k \in 1..Len(blocked_slots) :
           /\ blocked_slots[k].employee_id = f.employee_id
           /\ blocked_slots[k].date = f.date
           /\ blocked_slots[k].dagdeel = f.dagdeel

\* The FixedAssignments FASE 1 has gone through.
C3_Processed ==
    SubSeq(fixed_assignments, 1,
           IF pc = "fase1" THEN fi - 1 ELSE Len(fixed_assignments))

C3_LockedOf(ros) ==
    LET locked == SelectSeq(ros, LAMBDA a : a.is_locked)
    IN  [i \in 1..Len(locked) |->
            [employee_id |-> locked[i].employee_id, date |-> locked[i].date,
             dagdeel |-> locked[i].dagdeel, service_id |-> locked[i].service_id]]

C3_LocksAreTheValidFixed ==
    /\ C3_LockedOf(roster) = SelectSeq(C3_Processed, C3_Valid)
    /\ \A i \in 1..Len(roster) : roster[i].is_locked <=> roster[i].source = "pre-planned"
    /\ pc = "fase1" =>
           /\ bottlenecks = <<>>
           /\ \A i \in 1..Len(roster) : roster[i].is_locked

C3_RosterOnlyGrows ==
    /\ Len(roster') >= Len(roster)
    /\ SubSeq(roster', 1, Len(roster)) = roster
    /\ pc # "fase1" => C3_LockedOf(roster') = C3_LockedOf(roster)

\* C3: the locked Assignments are exactly those of the valid FixedAssignments,
\* one per valid entry in input order; an invalid entry adds no Assignment and
\* no Bottleneck in FASE 1; FASE 2 never removes, reorders or changes a locked
\* Assignment.
C3_LockedExactlyValid == []C3_LocksAreTheValidFixed /\ [][C3_RosterOnlyGrows]_vars

\* A returned roster with a lock kept, a FixedAssignment dropped and a greedy
\* Assignment placed behind the lock.
C3_Witness ==
    /\ pc = "done"
    /\ \E i \in 1..Len(fixed_assignments) : ~C3_Valid(fixed_assignments[i])
    /\ \E i \in 1..Len(fixed_assignments) : C3_Valid(fixed_assignments[i])
    /\ \E i \in 1..Len(roster) : roster[i].is_locked
    /\ \E i \in 1..Len(roster) : ~roster[i].is_locked

C4_BottlenecksShort ==
    \A i \in 1..Len(bottlenecks) :
        /\ bottlenecks[i].shortage
               = bottlenecks[i].required_count - bottlenecks[i].placed_count
        /\ bottlenecks[i].shortage >= 1

C4_Creation ==
    /\ Len(bottlenecks') > Len(bottlenecks) =>
           LET b == bottlenecks'[Len(bottlenecks')]
               req == requirements[ri]
               now == CountSlot(roster', req.date, req.dagdeel, req.service_id)
           IN  /\ Len(bottlenecks') = Len(bottlenecks) + 1
               /\ SubSeq(bottlenecks', 1, Len(bottlenecks)) = bottlenecks
               /\ ri' = ri + 1
               /\ SameTriple(b, req)
               /\ b.required_count = req.required_count
               /\ b.placed_count = now
               /\ now < req.required_count
    /\ (/\ pc = "fase2"
        /\ ri <= Len(requirements)
        /\ CountSlot(roster, requirements[ri].date, requirements[ri].dagdeel,
                     requirements[ri].service_id) >= requirements[ri].required_count)
           => (ri' = ri + 1 /\ bottlenecks' = bottlenecks)

\* C4: every Bottleneck has shortage = required_count - placed_count >= 1, its
\* placed_count is the number of roster Assignments for the requirement's triple
\* right after the requirement was processed, and no Bottleneck is created for a
\* requirement whose triple already holds required_count Assignments or more.
C4_BottleneckShortage == []C4_BottlenecksShort /\ [][C4_Creation]_vars

\* A returned result with a Bottleneck of a partly filled requirement: some
\* Assignments were already there, some were placed, some seats stay open.
C4_Witness ==
    /\ pc = "done"
    /\ \E i \in 1..Len(bottlenecks) :
           /\ bottlenecks[i].placed_count >= 1
           /\ bottlenecks[i].shortage >= 1
    /\ \E i \in 1..Len(bottlenecks) : bottlenecks[i].shortage = 2
    /\ \E i \in 1..Len(roster) : roster[i].is_locked
    /\ \E i \in 1..Len(roster) : ~roster[i].is_locked

\* An upper bound on the steps solve still has to take.
C6_StepsLeft ==
    LET perRequirement == Len(employees) + 2
        open == Len(requirements) + 1 - ri
    IN  CASE pc = "fase1" ->
                 (Len(fixed_assignments) + 1 - fi) + 1
                 + Len(requirements) * perRequirement + 1
          [] pc = "fase2" -> open * perRequirement + 1
          [] pc = "assign" ->
                 (open - 1) * perRequirement + (Len(eligible) + 1 - ei) + 2
          [] OTHER -> 0

C6_Running ==
    /\ pc # "raised"
    /\ C6_StepsLeft >= 0
    /\ pc # "done" => ENABLED Next
    /\ pc = "done" => result.total_slots = Len(requirements)

C6_Progress == C6_StepsLeft' < C6_StepsLeft

\* C6: solve never raises and always ends with a Result: no step raises, solve
\* can take a step until it has returned, and every step brings the return
\* nearer; with empty lists, unlisted workers in fixed assignments and blocked
\* slots, a required_count of zero and several requirements for one triple.
C6_NeverRaises == []C6_Running /\ [][C6_Progress]_vars

\* solve has returned for a call with a FixedAssignment and a BlockedSlot of an
\* unlisted worker, a requirement of zero and a second requirement for the
\* same triple.
C6_Witness ==
    /\ pc = "done"
    /\ \E i \in 1..Len(fixed_assignments) :
           \A k \in 1..Len(employees) :
               employees[k].employee_id # fixed_assignments[i].employee_id
    /\ \E i \in 1..Len(blocked_slots) :
           \A k \in 1..Len(employees) :
               employees[k].employee_id # blocked_slots[i].employee_id
    /\ \E i, j \in 1..Len(requirements) :
           /\ i < j
           /\ SameTriple(requirements[i], requirements[j])
           /\ requirements[i].required_count = 0

\* The other empty-input case of C6: solve has returned for a call without
\* employees whose requirement became a Bottleneck.
C6_WitnessNoEmployees ==
    pc = "done" /\ employees = <<>> /\ Len(bottlenecks) = 1

\* C7: in the returned Result total_slots is the number of requirements,
\* assigned_slots is total_slots minus the number of Bottlenecks, coverage_rate
\* is assigned_slots / total_slots * 100 (0 without requirements); so
\* 0 <= assigned_slots <= total_slots and 0 <= coverage_rate <= 100.
C7_Metrics ==
    pc = "done" =>
        LET num == result.coverage_rate[1]
            den == result.coverage_rate[2]
        IN  /\ result.total_slots = Len(requirements)
            /\ result.assigned_slots = result.total_slots - Len(bottlenecks)
            /\ den > 0
            /\ IF result.total_slots > 0
               THEN num * result.total_slots = result.assigned_slots * 100 * den
               ELSE num = 0
            /\ 0 <= result.assigned_slots
            /\ result.assigned_slots <= result.total_slots
            /\ 0 <= num
            /\ num <= 100 * den

\* A returned Result with a multi-seat requirement, a filled requirement and a
\* Bottleneck: coverage strictly between 0 and 100.
C7_Witness ==
    /\ pc = "done"
    /\ Len(requirements) >= 2
    /\ \E i \in 1..Len(requirements) : requirements[i].required_count = 2
    /\ Len(bottlenecks) >= 1
    /\ result.assigned_slots >= 1
    /\ Len(roster) >= 1

\* The workers capable of the service, over the whole employee list.
C8_Capable(b) ==
    { i \in 1..Len(employees) :
        /\ b.service_id \in DOMAIN employees[i].capable_services
        /\ employees[i].capable_services[b.service_id] }

C8_Blocked(b, i) ==
    \E k \in 1..Len(blocked_slots) :
        /\ blocked_slots[k].employee_id = employees[i].employee_id
        /\ blocked_slots[k].date = b.date
        /\ blocked_slots[k].dagdeel = b.dagdeel

C8_Classified(b, none, allBlocked, insufficient) ==
    IF C8_Capable(b) = {} THEN b.reason = none
    ELSE IF \A i \in C8_Capable(b) : C8_Blocked(b, i) THEN b.reason = allBlocked
    ELSE b.reason = insufficient

C9_DistinctIds ==
    \A i, j \in 1..Len(roster) :
        i # j => roster[i].assignment_id # roster[j].assignment_id

\* The roster as it stood when the requirement in hand began to be processed.
C10_Base == SubSeq(roster, 1, Len(roster) - assigned)

\* The Workload Tracker value of employees[i] at that moment: one per
\* Assignment already committed to the worker.
C10_Load(i) ==
    Cardinality({ n \in 1..Len(C10_Base) :
                    C10_Base[n].employee_id = employees[i].employee_id })

\* The places in the employee list of the workers eligible for the requirement.
C10_Eligible ==
    LET r == requirements[ri]
    IN  { i \in 1..Len(employees) :
            /\ r.team = "" \/ employees[i].team = r.team
            /\ r.service_id \in DOMAIN employees[i].capable_services
            /\ employees[i].capable_services[r.service_id]
            /\ ~\E k \in 1..Len(blocked_slots) :
                   /\ blocked_slots[k].employee_id = employees[i].employee_id
                   /\ blocked_slots[k].date = r.date
                   /\ blocked_slots[k].dagdeel = r.dagdeel
            /\ ~\E n \in 1..Len(C10_Base) :
                   /\ C10_Base[n].employee_id = employees[i].employee_id
                   /\ C10_Base[n].date = r.date
                   /\ C10_Base[n].dagdeel = r.dagdeel }

\* The place of employees[i] in the eligible list sorted by load, ties in
\* input order.
C10_Rank(i) ==
    1 + Cardinality({ j \in C10_Eligible :
                        \/ C10_Load(j) < C10_Load(i)
                        \/ C10_Load(j) = C10_Load(i) /\ j < i })

C10_Shortage ==
    LET r == requirements[ri]
    IN  r.required_count
        - Cardinality({ n \in 1..Len(C10_Base) : SameTriple(C10_Base[n], r) })

C10_Quota ==
    IF C10_Shortage < Cardinality(C10_Eligible)
    THEN C10_Shortage ELSE Cardinality(C10_Eligible)

C10_CommittedSoFar ==
    pc = "assign" =>
        /\ assigned <= C10_Quota
        /\ \A k \in 1..assigned :
               LET a == roster[Len(C10_Base) + k]
               IN  /\ \E i \in C10_Eligible :
                          /\ C10_Rank(i) = k
                          /\ a.employee_id = employees[i].employee_id
                   /\ SameTriple(a, requirements[ri])
                   /\ a.source = "greedy"

C10_AllCommitted == (pc = "assign" /\ pc' # "assign") => assigned = C10_Quota

C11_Count(r) ==
    Cardinality({ n \in 1..Len(roster) : SameTriple(roster[n], r) })

\* The places in the employee list of the workers eligible for r against the
\* roster as it stands.
C11_EligibleNow(r) ==
    { i \in 1..Len(employees) :
        /\ r.team = "" \/ employees[i].team = r.team
        /\ r.service_id \in DOMAIN employees[i].capable_services
        /\ employees[i].capable_services[r.service_id]
        /\ ~\E k \in 1..Len(blocked_slots) :
               /\ blocked_slots[k].employee_id = employees[i].employee_id
               /\ blocked_slots[k].date = r.date
               /\ blocked_slots[k].dagdeel = r.dagdeel
        /\ ~\E n \in 1..Len(roster) :
               /\ roster[n].employee_id = employees[i].employee_id
               /\ roster[n].date = r.date
               /\ roster[n].dagdeel = r.dagdeel }

\* While a requirement is filled its triple holds the Assignments counted at
\* the start plus those committed since, never more than its required_count.
C11_WithinOwnCount ==
    pc = "assign" =>
        /\ C11_Count(requirements[ri]) = current_count + assigned
        /\ C11_Count(requirements[ri]) <= requirements[ri].required_count

C11_Step ==
    /\ (pc = "fase2" /\ ri <= Len(requirements)) =>
           LET r == requirements[ri]
           IN  IF C11_Count(r) >= r.required_count
               THEN /\ pc' = "fase2"
                    /\ ri' = ri + 1
                    /\ roster' = roster
                    /\ bottlenecks' = bottlenecks
               ELSE /\ pc' = "assign"
                    /\ ri' = ri
                    /\ roster' = roster
                    /\ bottlenecks' = bottlenecks
                    /\ current_count' = C11_Count(r)
                    /\ shortage' = r.required_count - C11_Count(r)
                    /\ Len(eligible') = Cardinality(C11_EligibleNow(r))
                    /\ assigned' = 0
    /\ (pc = "assign" /\ pc' = "assign") =>
           /\ C11_Count(requirements[ri]) < requirements[ri].required_count
           /\ Len(roster') = Len(roster) + 1
           /\ SameTriple(roster'[Len(roster')], requirements[ri])
           /\ assigned' = assigned + 1
           /\ UNCHANGED <<ri, current_count, shortage, eligible, bottlenecks>>
    /\ (pc = "assign" /\ pc' = "fase2") =>
           /\ assigned = IF shortage < Len(eligible) THEN shortage ELSE Len(eligible)
           /\ roster' = roster
           /\ ri' = ri + 1

\* C11: the count taken when a requirement is processed covers every
\* Assignment of the roster for its triple, locks and Assignments of earlier
\* requirements alike; the requirement is skipped without a Bottleneck when the
\* count meets required_count, and otherwise exactly min(required_count -
\* count, number of eligible workers) Assignments are committed, so a second
\* requirement for a triple adds nothing beyond its own required_count.
C11_CountSeesRoster == []C11_WithinOwnCount /\ [][C11_Step]_vars

\* Scenario E: two requirements for one triple, for 1 and then 2 workers, three
\* eligible workers: the second requirement counts the Assignment placed for
\* the first and adds one more.
C11_Witness ==
    /\ pc = "done"
    /\ Len(requirements) = 2
    /\ SameTriple(requirements[1], requirements[2])
    /\ requirements[1].required_count = 1
    /\ requirements[2].required_count = 2
    /\ Len(employees) = 3
    /\ Len(roster) = 2
    /\ \A n \in 1..Len(roster) :
           roster[n].source = "greedy" /\ SameTriple(roster[n], requirements[1])
    /\ bottlenecks = <<>>

\* What the greedy Assignment a says of its worker whatever requirement it was
\* made for: some record of the employee list has the worker's id and the
\* capability flag for the service, and the worker is not blocked for the
\* Assignment's (date, dagdeel).
C12_WorkerFits(a) ==
    /\ \E i \in 1..Len(employees) :
           /\ employees[i].employee_id = a.employee_id
           /\ a.service_id \in DOMAIN employees[i].capable_services
           /\ employees[i].capable_services[a.service_id]
    /\ ~\E k \in 1..Len(blocked_slots) :
           /\ blocked_slots[k].employee_id = a.employee_id
           /\ blocked_slots[k].date = a.date
           /\ blocked_slots[k].dagdeel = a.dagdeel

C12_GreedyWorkersFit ==
    \A n \in 1..Len(roster) : roster[n].source = "greedy" => C12_WorkerFits(roster[n])

\* A step that adds a greedy Assignment adds it for the requirement in hand, to
\* a worker of the requirement's team (when it names one) who held nothing in
\* that (date, dagdeel) when the requirement was taken up.
C12_Commit ==
    (Len(roster') > Len(roster) /\ roster'[Len(roster')].source = "greedy") =>
        LET a == roster'[Len(roster')]
            r == requirements[ri]
        IN  /\ pc = "assign"
            /\ SameTriple(a, r)
            /\ C12_WorkerFits(a)
            /\ \E i \in 1..Len(employees) :
                   /\ employees[i].employee_id = a.employee_id
                   /\ r.team = "" \/ employees[i].team = r.team
                   /\ r.service_id \in DOMAIN employees[i].capable_services
                   /\ employees[i].capable_services[r.service_id]
            /\ ~\E n \in 1..Len(C10_Base) :
                   /\ C10_Base[n].employee_id = a.employee_id
                   /\ C10_Base[n].date = a.date
                   /\ C10_Base[n].dagdeel = a.dagdeel

\* C12: every greedy Assignment is held by a worker of the employee list who is
\* capable of the service, not blocked for the (worker, date, dagdeel), of the
\* requirement's team when the requirement sets a team filter, and without an
\* Assignment for that (date, dagdeel) when the requirement was processed.
C12_GreedyEligible == []C12_GreedyWorkersFit /\ [][C12_Commit]_vars

\* A returned roster with a greedy Assignment of a team-filtered requirement,
\* made while a capable worker of another team and a capable worker already
\* holding a lock in that day-part were listed.
C12_Witness ==
    /\ pc = "done"
    /\ blocked_slots = <<>>
    /\ Len(requirements) >= 1
    /\ \A k \in 1..Len(requirements) : requirements[k].team = "A"
    /\ \E n \in 1..Len(roster) :
           /\ roster[n].source = "greedy"
           /\ roster[n].employee_id = "e3"
    /\ \E n \in 1..Len(roster) :
           /\ roster[n].is_locked
           /\ roster[n].employee_id = "e1"
           /\ roster[n].dagdeel = "ochtend"
    /\ \E i \in 1..Len(employees) : employees[i].employee_id = "e2"
    /\ \A n \in 1..Len(roster) : roster[n].employee_id # "e2"

\* C13: every Bottleneck of the returned Result still describes an
\* under-filled slot of the returned roster: the roster holds placed_count
\* Assignments for the Bottleneck's triple, fewer than required_count, also
\* when later requirements target the same triple.
C13_BottlenecksStillShort ==
    pc = "done" =>
        \A i \in 1..Len(bottlenecks) :
            LET b == bottlenecks[i]
                held == Cardinality({ n \in 1..Len(roster) : SameTriple(roster[n], b) })
            IN  held = b.placed_count /\ held < b.required_count

====
